---- MODULE Spec2Model ----
(***************************************************************************)
(* The resilient API client of Reviews Copilot: the axios instance `api`,  *)
(* the retry wrapper retryRequest / shouldRetry, the reviewsAPI facade     *)
(* (frontend/src/types/index.ts) and the ConnectionStatus health monitor   *)
(* (frontend/src/components/LoadingSpinner.tsx).                           *)
(***************************************************************************)
EXTENDS Integers, Sequences, FiniteSets, TLC

\* ------------------------------------------------------------ configuration

MAX_RETRIES == 3

BACKOFF_BASE == 1000

\* Number of health checks one monitor instance may start in a behaviour.
MaxPolls == 3

\* Period of the health poll, ms.
POLL_INTERVAL == 30000

\* The timeout of the axios instance, ms.
REQUEST_TIMEOUT == 30000

\* Longest search query (in characters) and largest review array drawn as input.
MaxQueryLen == 2

MaxReviews == 1

\* Logical facade calls that may be in flight at the same time.
Calls == {"c1", "c2"}

Operations ==
    {"getReviews", "getReview", "ingestReviews", "suggestReply",
     "getAnalytics", "searchSimilar", "processReviews"}

\* --------------------------------------------------------------- variables

VARIABLES
    pc,          \* per call: "idle", "inflight" (awaiting api(config)),
                 \*           "backoff" (awaiting the setTimeout promise), "done"
    op,          \* per call: the facade operation invoked
    arg,         \* per call: the argument the operation was invoked with
    retryCount,  \* per call: the retryCount parameter of the running retryRequest
    attempts,    \* per call: network requests issued so far
    net,         \* per call: network requests currently in flight
    lastError,   \* per call: the AxiosError of the latest rejected attempt
    settled,     \* per call: how the latest finished attempt ended
    waits,       \* per call: the setTimeout delays (ms) scheduled so far
    timer,       \* per call: delay of the pending setTimeout, 0 when none
    result,      \* per call: state of the promise the facade returned
    sent,        \* per call: the request config of the latest attempt issued
    message,     \* per call: message of the Error the facade threw, as its parts
    received,    \* per call: status of the response to the latest finished
                 \*           attempt, 0 when it ended without a response
    issued,      \* the calls in the order they were invoked
    shown,       \* ReviewsList: the getReviews call whose data is displayed
    mounted,     \* per call: the component that issued it is still mounted
    phase,       \* ConnectionStatus: "rendered", "mounted", "unmounted"
    isOnline,    \* ConnectionStatus state isOnline
    apiStatus,   \* ConnectionStatus state apiStatus
    interval,    \* TRUE while the setInterval timer is armed
    hcStarted,   \* health checks started by the monitor so far
    hcPending,   \* ids of the monitor's health checks still in flight
    hcOutcome,   \* per health check id: "none", "resolved", "rejected"
    signals,     \* the two latest browser connectivity events delivered
    hcError,     \* the AxiosError of the monitor's latest failed health check
    hcStartedAt, \* ms after mount at which each health check was started
    hcAttempts,  \* per health check id: network requests issued for it
    unhandled    \* TRUE once an error has escaped checkApiHealth

callVars == <<pc, op, arg, retryCount, attempts, net, lastError, settled, waits,
              timer, result, sent, message, received, issued, shown, mounted>>

healthVars == <<phase, isOnline, apiStatus, interval, hcStarted, hcPending,
                hcOutcome, signals, hcError, hcStartedAt, hcAttempts, unhandled>>

vars == <<pc, op, arg, retryCount, attempts, net, lastError, settled, waits,
          timer, result, sent, message, received, issued, shown, mounted, phase,
          isOnline, apiStatus, interval, hcStarted, hcPending, hcOutcome, signals,
          hcError, hcStartedAt, hcAttempts, unhandled>>

\* ------------------------------------------------------- the network / axios

\* What the network can do with one request: answer with a status, let the
\* 30 s axios timeout expire, or fail without any response.
Statuses == {200, 400, 401, 404, 429, 500, 503}

\* The "detail" field of an error response body; "" when the body has none.
Details == {"", "Server detail"}

NetOutcomes ==
    [kind : {"status"}, status : {200}, detail : {""}]
        \cup [kind : {"status"}, status : Statuses \ {200}, detail : Details]
        \cup {[kind |-> "timeout", status |-> 0, detail |-> ""],
              [kind |-> "network", status |-> 0, detail |-> ""]}

\* Variant: every response received resolves the promise, whatever its status.
Fulfilled_AnyResponse(out) == out.kind = "status"

\* axios resolves the promise for 2xx (default validateStatus) and rejects it
\* otherwise; the response interceptors pass both through unchanged.
Fulfilled(out) == out.kind = "status" /\ out.status >= 200 /\ out.status < 300

\* The status of the response an attempt received, 0 when it received none.
statusReceived(out) == IF out.kind = "status" THEN out.status ELSE 0

NoError ==
    [code |-> "NONE", hasResponse |-> FALSE, status |-> 0, detail |-> "",
     message |-> "", isError |-> FALSE]

\* error.message of the AxiosError for each way an attempt can fail.
AxiosMessage(out) ==
    IF out.kind = "timeout" THEN "timeout of 30000ms exceeded"
    ELSE IF out.kind = "network" THEN "Network Error"
    ELSE CASE out.status = 400 -> "Request failed with status code 400"
           [] out.status = 401 -> "Request failed with status code 401"
           [] out.status = 404 -> "Request failed with status code 404"
           [] out.status = 429 -> "Request failed with status code 429"
           [] out.status = 500 -> "Request failed with status code 500"
           [] out.status = 503 -> "Request failed with status code 503"
           [] OTHER -> "Request failed"

\* The AxiosError a rejected attempt carries: code, response (status and the
\* body's detail) when one was received, and message.
AxiosErrorOf(out) ==
    IF out.kind = "timeout"
    THEN [code |-> "ECONNABORTED", hasResponse |-> FALSE, status |-> 0, detail |-> "",
          message |-> AxiosMessage(out), isError |-> TRUE]
    ELSE IF out.kind = "network"
    THEN [code |-> "ERR_NETWORK", hasResponse |-> FALSE, status |-> 0, detail |-> "",
          message |-> AxiosMessage(out), isError |-> TRUE]
    ELSE [code |-> IF out.status >= 500 THEN "ERR_BAD_RESPONSE" ELSE "ERR_BAD_REQUEST",
          hasResponse |-> TRUE, status |-> out.status, detail |-> out.detail,
          message |-> AxiosMessage(out), isError |-> TRUE]

\* ------------------------------------------------------------ facade inputs

NotArray == [isArray |-> FALSE, length |-> 0]

ReviewsInputs == {NotArray} \cup [isArray : {TRUE}, length : 0..MaxReviews]

\* Characters String.prototype.trim removes, among those drawn.
Whitespace == {" ", "\t"}

QueryChars == Whitespace \cup {"a"}

Queries == UNION {[1..n -> QueryChars] : n \in 0..MaxQueryLen}

\* The keys a caller of getReviews can set (Pagination) and the values drawn
\* for them; the empty function is getReviews({}).
CallerKeys == {"page", "size"}

ParamValues == {1, 10, 25}

NoParams == [k \in {} |-> 0]

ParamsInputs == UNION {[S -> ParamValues] : S \in SUBSET CallerKeys}

\* The review id of getReview / suggestReply, as it appears in the URL.
Ids == {"7"}

NoArg == [reviews |-> NotArray, query |-> <<>>, params |-> NoParams, id |-> ""]

Inputs(o) ==
    IF o = "ingestReviews" THEN {[NoArg EXCEPT !.reviews = r] : r \in ReviewsInputs}
    ELSE IF o = "searchSimilar" THEN {[NoArg EXCEPT !.query = q] : q \in Queries}
    ELSE IF o = "getReviews" THEN {[NoArg EXCEPT !.params = ps] : ps \in ParamsInputs}
    ELSE IF o \in {"getReview", "suggestReply"} THEN {[NoArg EXCEPT !.id = i] : i \in Ids}
    ELSE {NoArg}

\* One well-formed input per operation.
DefaultArg(o) ==
    IF o = "ingestReviews" THEN [NoArg EXCEPT !.reviews = [isArray |-> TRUE, length |-> 1]]
    ELSE IF o = "searchSimilar" THEN [NoArg EXCEPT !.query = <<"a">>]
    ELSE IF o \in {"getReview", "suggestReply"} THEN [NoArg EXCEPT !.id = "7"]
    ELSE NoArg

\* String.prototype.trim on a query.
RECURSIVE trimStart(_)
trimStart(q) == IF q # <<>> /\ Head(q) \in Whitespace THEN trimStart(Tail(q)) ELSE q

RECURSIVE trimEnd(_)
trimEnd(q) ==
    IF q # <<>> /\ q[Len(q)] \in Whitespace THEN trimEnd(SubSeq(q, 1, Len(q) - 1)) ELSE q

trim(q) == trimEnd(trimStart(q))

\* Variant: searchSimilar tests !query only.
ValidInput_NoTrim(o, a) ==
    IF o = "ingestReviews" THEN ~(~a.reviews.isArray \/ a.reviews.length = 0)
    ELSE IF o = "searchSimilar" THEN ~(Len(a.query) = 0)
    ELSE TRUE

\* Variant: ingestReviews tests Array.isArray only.
ValidInput_NoLength(o, a) ==
    IF o = "ingestReviews" THEN ~(~a.reviews.isArray)
    ELSE IF o = "searchSimilar" THEN ~(Len(a.query) = 0 \/ Len(trim(a.query)) = 0)
    ELSE TRUE

\* The input validation at the head of ingestReviews and searchSimilar; the
\* other operations validate nothing.
ValidInput(o, a) ==
    IF o = "ingestReviews" THEN ~(~a.reviews.isArray \/ a.reviews.length = 0)
    ELSE IF o = "searchSimilar" THEN ~(Len(a.query) = 0 \/ Len(trim(a.query)) = 0)
    ELSE TRUE

\* ------------------------------------------------------------- retry policy

\* Variant: 503 treated as not retryable.
shouldRetry_No503(error) ==
    \/ error.code = "ECONNABORTED"
    \/ (error.hasResponse /\ error.status # 0 /\ error.status >= 500 /\ error.status # 503)
    \/ (error.hasResponse /\ error.status = 429)

\* Variant: the rate-limiting disjunct dropped.
shouldRetry_No429(error) ==
    \/ error.code = "ECONNABORTED"
    \/ (error.hasResponse /\ error.status # 0 /\ error.status >= 500)

\* Variant: the status test written >= 400.
shouldRetry_All4xx(error) ==
    \/ error.code = "ECONNABORTED"
    \/ (error.hasResponse /\ error.status # 0 /\ error.status >= 400)
    \/ (error.hasResponse /\ error.status = 429)

\* Variant: every failure without a response treated as retryable.
shouldRetry_NoResponse(error) ==
    \/ error.code = "ECONNABORTED"
    \/ ~error.hasResponse
    \/ (error.hasResponse /\ error.status # 0 /\ error.status >= 500)
    \/ (error.hasResponse /\ error.status = 429)

shouldRetry(error) ==
    \/ error.code = "ECONNABORTED"
    \/ (error.hasResponse /\ error.status # 0 /\ error.status >= 500)
    \/ (error.hasResponse /\ error.status = 429)

\* Variant: the budget test written <=.
retryAllowed_OffByOne(rc, error) == rc <= MAX_RETRIES /\ shouldRetry(error)

\* The guard of the retry branch in retryRequest's catch.
retryAllowed(rc, error) == rc < MAX_RETRIES /\ shouldRetry(error)

\* Variant: exponential backoff, as the source comment calls it.
backoffDelay_Exponential(rc) == BACKOFF_BASE * (2 ^ rc)

\* The delay handed to setTimeout before the next attempt.
backoffDelay(rc) == BACKOFF_BASE * (rc + 1)

\* Variant: retryCount kept in one module-level counter shared by all calls.
bumpRetryCount_Shared(rc, c) == [d \in Calls |-> rc[d] + 1]

\* retryRequest(config, retryCount + 1): the counter is a parameter of the
\* recursive call, one per logical call.
bumpRetryCount(rc, c) == [rc EXCEPT ![c] = @ + 1]

\* Variant: a catch block that logs and returns instead of throwing.
facadeSettle_Swallow(o, ok) == "value"

\* Every facade operation returns response.data from its try block and throws
\* a new Error from its catch block.
facadeSettle(o, ok) == IF ok THEN "value" ELSE "error"

\* ------------------------------------------------------ requests and errors

NoData == [present |-> FALSE, reviews |-> NotArray]

NoRequest == [method |-> "NONE", url |-> <<>>, params |-> NoParams, data |-> NoData]

\* Object spread { ...defaults, ...params }: the caller's keys are added and
\* override a default of the same name.
Merge(defaults, params) ==
    [k \in DOMAIN defaults \cup DOMAIN params |->
        IF k \in DOMAIN params THEN params[k] ELSE defaults[k]]

\* Variant: defaults with a 0-based first page.
getReviewsDefaults_ZeroPage == [page |-> 0, page_size |-> 10]

\* The defaults getReviews puts before the caller's params.
getReviewsDefaults == [page |-> 1, page_size |-> 10]

\* The k searchSimilar sends when the caller names none.
SEARCH_K == 5

\* The config each operation hands to retryRequest.
requestConfig(o, a) ==
    CASE o = "getReviews" ->
            [method |-> "GET", url |-> <<"/reviews">>,
             params |-> Merge(getReviewsDefaults, a.params), data |-> NoData]
      [] o = "getReview" ->
            [method |-> "GET", url |-> <<"/reviews/", a.id>>,
             params |-> NoParams, data |-> NoData]
      [] o = "ingestReviews" ->
            [method |-> "POST", url |-> <<"/ingest">>,
             params |-> NoParams, data |-> [present |-> TRUE, reviews |-> a.reviews]]
      [] o = "suggestReply" ->
            [method |-> "POST", url |-> <<"/reviews/", a.id, "/suggest-reply">>,
             params |-> NoParams, data |-> NoData]
      [] o = "getAnalytics" ->
            [method |-> "GET", url |-> <<"/analytics">>,
             params |-> NoParams, data |-> NoData]
      [] o = "searchSimilar" ->
            [method |-> "GET", url |-> <<"/search">>,
             params |-> [q |-> trim(a.query), k |-> SEARCH_K], data |-> NoData]
      [] o = "processReviews" ->
            [method |-> "POST", url |-> <<"/process-reviews">>,
             params |-> NoParams, data |-> NoData]
      [] OTHER -> NoRequest

\* The Error thrown by an operation's input validation.
validationError(o) ==
    [NoError EXCEPT
        !.isError = TRUE,
        !.message = IF o = "ingestReviews"
                    THEN "Reviews array is required and cannot be empty"
                    ELSE "Search query is required"]

\* error instanceof Error ? error.message : 'Unknown error'
errorMessageOf(error) == IF error.isError THEN error.message ELSE "Unknown error"

\* axiosError.response?.data?.detail || axiosError.message
detailOrMessage(error) == IF error.detail # "" THEN error.detail ELSE error.message

\* 'response' in error && error.response?.status === st
hasStatus(error, st) == error.hasResponse /\ error.status = st

\* The message of the Error thrown by each operation's catch block, as the
\* parts of its template string.
getReviewsMessage(a, error) == <<"Failed to fetch reviews", ": ", errorMessageOf(error)>>

\* Variant: getReview without its 404 branch.
getReviewMessage_No404(a, error) ==
    <<"Failed to fetch review", ": ", errorMessageOf(error)>>

getReviewMessage(a, error) ==
    IF hasStatus(error, 404) THEN <<"Review with ID ", a.id, " not found">>
    ELSE <<"Failed to fetch review", ": ", errorMessageOf(error)>>

\* Variant: the raw message rethrown without the operation's prefix.
ingestReviewsMessage_NoPrefix(a, error) == <<errorMessageOf(error)>>

ingestReviewsMessage(a, error) ==
    <<"Failed to ingest reviews", ": ", errorMessageOf(error)>>

\* Variant: suggestReply without its 503 branch.
suggestReplyMessage_No503(a, error) ==
    IF hasStatus(error, 404) THEN <<"Review with ID ", a.id, " not found">>
    ELSE <<"Failed to generate reply", ": ", errorMessageOf(error)>>

suggestReplyMessage(a, error) ==
    IF hasStatus(error, 404) THEN <<"Review with ID ", a.id, " not found">>
    ELSE IF hasStatus(error, 503) THEN <<"AI reply generation is currently unavailable">>
    ELSE <<"Failed to generate reply", ": ", errorMessageOf(error)>>

\* Variant: getAnalytics without its 503 branch.
getAnalyticsMessage_No503(a, error) ==
    IF error.hasResponse
    THEN <<"Failed to fetch analytics", ": ", detailOrMessage(error)>>
    ELSE <<"Failed to fetch analytics", ": ", errorMessageOf(error)>>

getAnalyticsMessage(a, error) ==
    IF error.hasResponse
    THEN IF error.status = 503 THEN <<"Analytics are currently unavailable">>
         ELSE <<"Failed to fetch analytics", ": ", detailOrMessage(error)>>
    ELSE <<"Failed to fetch analytics", ": ", errorMessageOf(error)>>

searchSimilarMessage(a, error) ==
    IF error.hasResponse
    THEN IF error.status = 503 THEN <<"Search functionality is currently unavailable">>
         ELSE <<"Failed to search reviews", ": ", detailOrMessage(error)>>
    ELSE <<"Failed to search reviews", ": ", errorMessageOf(error)>>

processReviewsMessage(a, error) ==
    IF error.hasResponse
    THEN IF error.status = 503 THEN <<"Batch processing is currently unavailable">>
         ELSE <<"Failed to process reviews", ": ", detailOrMessage(error)>>
    ELSE <<"Failed to process reviews", ": ", errorMessageOf(error)>>

healthCheckMessage(error) ==
    IF error.hasResponse
    THEN <<"Health check failed", ": ", detailOrMessage(error)>>
    ELSE <<"Health check failed", ": ", errorMessageOf(error)>>

facadeMessage(o, a, error) ==
    CASE o = "getReviews" -> getReviewsMessage(a, error)
      [] o = "getReview" -> getReviewMessage(a, error)
      [] o = "ingestReviews" -> ingestReviewsMessage(a, error)
      [] o = "suggestReply" -> suggestReplyMessage(a, error)
      [] o = "getAnalytics" -> getAnalyticsMessage(a, error)
      [] o = "searchSimilar" -> searchSimilarMessage(a, error)
      [] o = "processReviews" -> processReviewsMessage(a, error)
      [] OTHER -> <<>>

\* loadReviews after `await reviewsAPI.getReviews(params)`: a call that
\* resolved hands its data to setReviews and setPagination, a call that
\* failed leaves the list as it was; a setter of an unmounted component
\* changes nothing.
loadReviewsShown(cur, c, o, ok, isMounted) ==
    IF o = "getReviews" /\ ok /\ isMounted THEN c ELSE cur

\* ----------------------------------------------------------------- initial

Init ==
    /\ pc = [c \in Calls |-> "idle"]
    /\ op = [c \in Calls |-> "none"]
    /\ arg = [c \in Calls |-> NoArg]
    /\ retryCount = [c \in Calls |-> 0]
    /\ attempts = [c \in Calls |-> 0]
    /\ net = [c \in Calls |-> 0]
    /\ lastError = [c \in Calls |-> NoError]
    /\ settled = [c \in Calls |-> "none"]
    /\ waits = [c \in Calls |-> <<>>]
    /\ timer = [c \in Calls |-> 0]
    /\ result = [c \in Calls |-> "pending"]
    /\ sent = [c \in Calls |-> NoRequest]
    /\ message = [c \in Calls |-> <<>>]
    /\ received = [c \in Calls |-> 0]
    /\ issued = <<>>
    /\ shown = "none"
    /\ mounted = [c \in Calls |-> TRUE]
    /\ phase = "rendered"
    /\ isOnline \in BOOLEAN
    /\ apiStatus = "checking"
    /\ interval = FALSE
    /\ hcStarted = 0
    /\ hcPending = {}
    /\ hcOutcome = [i \in 1..MaxPolls |-> "none"]
    /\ signals = <<>>
    /\ hcError = NoError
    /\ hcStartedAt = <<>>
    /\ hcAttempts = [i \in 1..MaxPolls |-> 0]
    /\ unhandled = FALSE

\* ------------------------------------------------------ facade call actions

\* A caller invokes facade operation o with argument a.  Invalid input throws
\* inside the try block before retryRequest is reached; otherwise
\* retryRequest(config, 0) issues the first attempt.
Invoke(c, o, a) ==
    /\ pc[c] = "idle"
    /\ op' = [op EXCEPT ![c] = o]
    /\ arg' = [arg EXCEPT ![c] = a]
    /\ IF ValidInput(o, a)
       THEN /\ pc' = [pc EXCEPT ![c] = "inflight"]
            /\ attempts' = [attempts EXCEPT ![c] = @ + 1]
            /\ net' = [net EXCEPT ![c] = @ + 1]
            /\ sent' = [sent EXCEPT ![c] = requestConfig(o, a)]
            /\ UNCHANGED <<result, message>>
       ELSE /\ pc' = [pc EXCEPT ![c] = "done"]
            /\ result' = [result EXCEPT ![c] = facadeSettle(o, FALSE)]
            /\ message' = [message EXCEPT ![c] = facadeMessage(o, a, validationError(o))]
            /\ UNCHANGED <<attempts, net, sent>>
    /\ issued' = Append(issued, c)
    /\ UNCHANGED <<retryCount, lastError, settled, waits, timer, received, shown, mounted>>
    /\ UNCHANGED healthVars

\* Variant: the setTimeout promise is not awaited, so the recursive
\* retryRequest call issues the next attempt at once.
Respond_NoAwait(c, out) ==
    /\ pc[c] = "inflight"
    /\ net[c] > 0
    /\ IF Fulfilled(out)
       THEN /\ settled' = [settled EXCEPT ![c] = "fulfilled"]
            /\ pc' = [pc EXCEPT ![c] = "done"]
            /\ net' = [net EXCEPT ![c] = @ - 1]
            /\ result' = [result EXCEPT ![c] = facadeSettle(op[c], TRUE)]
            /\ UNCHANGED <<lastError, waits, timer, retryCount, attempts, message>>
       ELSE /\ settled' = [settled EXCEPT ![c] = "rejected"]
            /\ lastError' = [lastError EXCEPT ![c] = AxiosErrorOf(out)]
            /\ IF retryAllowed(retryCount[c], AxiosErrorOf(out))
               THEN /\ waits' = [waits EXCEPT ![c] = Append(@, backoffDelay(retryCount[c]))]
                    /\ retryCount' = bumpRetryCount(retryCount, c)
                    /\ attempts' = [attempts EXCEPT ![c] = @ + 1]
                    /\ UNCHANGED <<pc, net, timer, result, message>>
               ELSE /\ pc' = [pc EXCEPT ![c] = "done"]
                    /\ net' = [net EXCEPT ![c] = @ - 1]
                    /\ result' = [result EXCEPT ![c] = facadeSettle(op[c], FALSE)]
                    /\ message' = [message EXCEPT ![c] =
                                      facadeMessage(op[c], arg[c], AxiosErrorOf(out))]
                    /\ UNCHANGED <<waits, timer, retryCount, attempts>>
    /\ received' = [received EXCEPT ![c] = statusReceived(out)]
    /\ shown' = loadReviewsShown(shown, c, op[c], Fulfilled(out), mounted[c])
    /\ UNCHANGED <<op, arg, sent, issued, mounted>>
    /\ UNCHANGED healthVars

\* Variant: only requests with an idempotent method are retried.
Respond_GetOnly(c, out) ==
    /\ pc[c] = "inflight"
    /\ net[c] > 0
    /\ net' = [net EXCEPT ![c] = @ - 1]
    /\ IF Fulfilled(out)
       THEN /\ settled' = [settled EXCEPT ![c] = "fulfilled"]
            /\ pc' = [pc EXCEPT ![c] = "done"]
            /\ result' = [result EXCEPT ![c] = facadeSettle(op[c], TRUE)]
            /\ UNCHANGED <<lastError, waits, timer, message>>
       ELSE /\ settled' = [settled EXCEPT ![c] = "rejected"]
            /\ lastError' = [lastError EXCEPT ![c] = AxiosErrorOf(out)]
            /\ IF sent[c].method = "GET" /\ retryAllowed(retryCount[c], AxiosErrorOf(out))
               THEN /\ pc' = [pc EXCEPT ![c] = "backoff"]
                    /\ timer' = [timer EXCEPT ![c] = backoffDelay(retryCount[c])]
                    /\ waits' = [waits EXCEPT ![c] = Append(@, backoffDelay(retryCount[c]))]
                    /\ UNCHANGED <<result, message>>
               ELSE /\ pc' = [pc EXCEPT ![c] = "done"]
                    /\ result' = [result EXCEPT ![c] = facadeSettle(op[c], FALSE)]
                    /\ message' = [message EXCEPT ![c] =
                                      facadeMessage(op[c], arg[c], AxiosErrorOf(out))]
                    /\ UNCHANGED <<waits, timer>>
    /\ received' = [received EXCEPT ![c] = statusReceived(out)]
    /\ shown' = loadReviewsShown(shown, c, op[c], Fulfilled(out), mounted[c])
    /\ UNCHANGED <<op, arg, retryCount, attempts, sent, issued, mounted>>
    /\ UNCHANGED healthVars

\* Variant: the outcome of a facade call is written to the monitor's status.
Respond_SetsStatus(c, out) ==
    /\ pc[c] = "inflight"
    /\ net[c] > 0
    /\ net' = [net EXCEPT ![c] = @ - 1]
    /\ IF Fulfilled(out)
       THEN /\ settled' = [settled EXCEPT ![c] = "fulfilled"]
            /\ pc' = [pc EXCEPT ![c] = "done"]
            /\ result' = [result EXCEPT ![c] = facadeSettle(op[c], TRUE)]
            /\ UNCHANGED <<lastError, waits, timer, message>>
       ELSE /\ settled' = [settled EXCEPT ![c] = "rejected"]
            /\ lastError' = [lastError EXCEPT ![c] = AxiosErrorOf(out)]
            /\ IF retryAllowed(retryCount[c], AxiosErrorOf(out))
               THEN /\ pc' = [pc EXCEPT ![c] = "backoff"]
                    /\ timer' = [timer EXCEPT ![c] = backoffDelay(retryCount[c])]
                    /\ waits' = [waits EXCEPT ![c] = Append(@, backoffDelay(retryCount[c]))]
                    /\ UNCHANGED <<result, message>>
               ELSE /\ pc' = [pc EXCEPT ![c] = "done"]
                    /\ result' = [result EXCEPT ![c] = facadeSettle(op[c], FALSE)]
                    /\ message' = [message EXCEPT ![c] =
                                      facadeMessage(op[c], arg[c], AxiosErrorOf(out))]
                    /\ UNCHANGED <<waits, timer>>
    /\ received' = [received EXCEPT ![c] = statusReceived(out)]
    /\ shown' = loadReviewsShown(shown, c, op[c], Fulfilled(out), mounted[c])
    /\ UNCHANGED <<op, arg, retryCount, attempts, sent, issued, mounted>>
    /\ apiStatus' = IF Fulfilled(out) THEN "online" ELSE "offline"
    /\ UNCHANGED <<phase, isOnline, interval, hcStarted, hcPending, hcOutcome, signals,
                   hcError, hcStartedAt, hcAttempts, unhandled>>

\* The attempt in flight ends with network outcome out: `await api(config)`
\* returns or throws, and the catch block of retryRequest either schedules the
\* backoff timer or rethrows into the facade's catch.
Respond(c, out) ==
    /\ pc[c] = "inflight"
    /\ net[c] > 0
    /\ net' = [net EXCEPT ![c] = @ - 1]
    /\ IF Fulfilled(out)
       THEN /\ settled' = [settled EXCEPT ![c] = "fulfilled"]
            /\ pc' = [pc EXCEPT ![c] = "done"]
            /\ result' = [result EXCEPT ![c] = facadeSettle(op[c], TRUE)]
            /\ UNCHANGED <<lastError, waits, timer, message>>
       ELSE /\ settled' = [settled EXCEPT ![c] = "rejected"]
            /\ lastError' = [lastError EXCEPT ![c] = AxiosErrorOf(out)]
            /\ IF retryAllowed(retryCount[c], AxiosErrorOf(out))
               THEN /\ pc' = [pc EXCEPT ![c] = "backoff"]
                    /\ timer' = [timer EXCEPT ![c] = backoffDelay(retryCount[c])]
                    /\ waits' = [waits EXCEPT ![c] = Append(@, backoffDelay(retryCount[c]))]
                    /\ UNCHANGED <<result, message>>
               ELSE /\ pc' = [pc EXCEPT ![c] = "done"]
                    /\ result' = [result EXCEPT ![c] = facadeSettle(op[c], FALSE)]
                    /\ message' = [message EXCEPT ![c] =
                                      facadeMessage(op[c], arg[c], AxiosErrorOf(out))]
                    /\ UNCHANGED <<waits, timer>>
    /\ received' = [received EXCEPT ![c] = statusReceived(out)]
    /\ shown' = loadReviewsShown(shown, c, op[c], Fulfilled(out), mounted[c])
    /\ UNCHANGED <<op, arg, retryCount, attempts, sent, issued, mounted>>
    /\ UNCHANGED healthVars

\* The backoff timer fires: retryRequest(config, retryCount + 1) runs and
\* issues the next attempt.
BackoffElapsed(c) ==
    /\ pc[c] = "backoff"
    /\ timer' = [timer EXCEPT ![c] = 0]
    /\ retryCount' = bumpRetryCount(retryCount, c)
    /\ attempts' = [attempts EXCEPT ![c] = @ + 1]
    /\ net' = [net EXCEPT ![c] = @ + 1]
    /\ pc' = [pc EXCEPT ![c] = "inflight"]
    /\ sent' = [sent EXCEPT ![c] = requestConfig(op[c], arg[c])]
    /\ UNCHANGED <<op, arg, lastError, settled, waits, result, message, received,
                   issued, shown, mounted>>
    /\ UNCHANGED healthVars

\* Variant: a cleanup that aborts the request and clears the backoff timer.
Teardown_Aborts(c) ==
    /\ pc[c] \in {"inflight", "backoff"}
    /\ mounted[c]
    /\ mounted' = [mounted EXCEPT ![c] = FALSE]
    /\ pc' = [pc EXCEPT ![c] = "done"]
    /\ net' = [net EXCEPT ![c] = 0]
    /\ timer' = [timer EXCEPT ![c] = 0]
    /\ result' = [result EXCEPT ![c] = "error"]
    /\ UNCHANGED <<op, arg, retryCount, attempts, lastError, settled, waits, sent,
                   message, received, issued, shown>>
    /\ UNCHANGED healthVars

\* The component that issued call c is torn down (the user navigates away)
\* while the call is running.  Its effect returns no cleanup, and neither
\* retryRequest nor the facade takes an abort signal: the call goes on.
Teardown(c) ==
    /\ pc[c] \in {"inflight", "backoff"}
    /\ mounted[c]
    /\ mounted' = [mounted EXCEPT ![c] = FALSE]
    /\ UNCHANGED <<pc, op, arg, retryCount, attempts, net, lastError, settled, waits,
                   timer, result, sent, message, received, issued, shown>>
    /\ UNCHANGED healthVars

\* ----------------------------------------------------------- health monitor

\* The window of connectivity events kept for the record.
lastTwo(q) == IF Len(q) > 2 THEN Tail(q) ELSE q

\* Variant: healthCheck routed through retryRequest like the other operations.
healthCheckVia_RetryRequest == "retryRequest"

\* The function healthCheck awaits: the axios instance itself.
healthCheckVia == "api.get"

\* Whether a failed request of a health check that has made n requests is
\* followed by another one.
healthCheckRetries(n, error) ==
    healthCheckVia = "retryRequest" /\ retryAllowed(n - 1, error)

\* The instant by which health check i has ended: axios rejects a request
\* REQUEST_TIMEOUT ms after it was sent.
deadline(i) == hcStartedAt[i] + REQUEST_TIMEOUT

\* reviewsAPI.healthCheck(): one api.get('/health'), outside retryRequest; it
\* returns response.data when the request is fulfilled and throws otherwise.
healthCheck(out) == IF Fulfilled(out) THEN "resolved" ELSE "rejected"

\* Variant: the catch block does not record the failure.
checkApiHealthStatus_NoCatch(outcome) == "online"

\* checkApiHealth: setApiStatus('online') after the awaited healthCheck,
\* setApiStatus('offline') in the catch block.
checkApiHealthStatus(outcome) == IF outcome = "resolved" THEN "online" ELSE "offline"

\* Variant: checkApiHealth without its try/catch.
checkApiHealth_NoTry(outcome, cur) ==
    IF outcome = "resolved"
    THEN [status |-> "online", thrown |-> FALSE]
    ELSE [status |-> cur, thrown |-> TRUE]

\* checkApiHealth as a whole: the status it sets, and whether its promise is
\* rejected.  The try branch and the catch branch both end normally.
checkApiHealth(outcome, cur) ==
    IF outcome = "resolved"
    THEN [status |-> checkApiHealthStatus(outcome), thrown |-> FALSE]
    ELSE [status |-> checkApiHealthStatus(outcome), thrown |-> FALSE]

\* Variant: the interval written 3000.
nextPollTime_Short(t) == t + 3000

\* setInterval(checkApiHealth, 30000): the next call is one period later.
nextPollTime(t) == t + POLL_INTERVAL

\* What ConnectionStatus renders: nothing when online and healthy, else one
\* of three indicator texts.
ConnectionIndicator(online, status) ==
    IF online /\ status = "online" THEN "none"
    ELSE IF ~online THEN "No internet connection"
    ELSE IF status = "offline" THEN "API server unavailable"
    ELSE "Checking connection..."

\* The effect of ConnectionStatus runs after the first render: it registers
\* the listeners, calls checkApiHealth() once and arms the 30 s interval.
Mount ==
    /\ phase = "rendered"
    /\ phase' = "mounted"
    /\ hcStarted' = hcStarted + 1
    /\ hcPending' = hcPending \cup {hcStarted + 1}
    /\ interval' = TRUE
    /\ hcStartedAt' = Append(hcStartedAt, 0)
    /\ hcAttempts' = [hcAttempts EXCEPT ![hcStarted + 1] = 1]
    /\ UNCHANGED <<isOnline, apiStatus, hcOutcome, signals, hcError, unhandled>>
    /\ UNCHANGED callVars

\* The interval timer fires and calls checkApiHealth, whether or not an
\* earlier check is still in flight.  A check whose timeout expired before
\* this instant has ended; one whose timeout expires at this instant may
\* still be waiting for its rejection to be delivered.
Tick ==
    /\ interval
    /\ hcStarted < MaxPolls
    /\ \A i \in hcPending : deadline(i) >= nextPollTime(hcStartedAt[Len(hcStartedAt)])
    /\ hcStarted' = hcStarted + 1
    /\ hcPending' = hcPending \cup {hcStarted + 1}
    /\ hcStartedAt' = Append(hcStartedAt, nextPollTime(hcStartedAt[Len(hcStartedAt)]))
    /\ hcAttempts' = [hcAttempts EXCEPT ![hcStarted + 1] = 1]
    /\ UNCHANGED <<phase, isOnline, apiStatus, interval, hcOutcome, signals, hcError,
                   unhandled>>
    /\ UNCHANGED callVars

\* The request of health check i ends with network outcome out: healthCheck
\* returns or throws and checkApiHealth resumes.  A timeout comes at the
\* check's deadline, so not before the end of a check whose deadline is
\* earlier.  A state setter called after the component was unmounted changes
\* nothing.
HealthRespond(i, out) ==
    /\ i \in hcPending
    /\ out.kind = "timeout" => \A j \in hcPending : deadline(j) >= deadline(i)
    /\ IF ~Fulfilled(out) /\ healthCheckRetries(hcAttempts[i], AxiosErrorOf(out))
       THEN /\ hcAttempts' = [hcAttempts EXCEPT ![i] = @ + 1]
            /\ UNCHANGED <<hcPending, hcOutcome, apiStatus, hcError, unhandled>>
       ELSE /\ hcPending' = hcPending \ {i}
            /\ hcOutcome' = [hcOutcome EXCEPT ![i] = healthCheck(out)]
            /\ apiStatus' = IF phase = "mounted"
                            THEN checkApiHealth(healthCheck(out), apiStatus).status
                            ELSE apiStatus
            /\ hcError' = IF Fulfilled(out) THEN hcError ELSE AxiosErrorOf(out)
            /\ unhandled' = (unhandled \/ checkApiHealth(healthCheck(out), apiStatus).thrown)
            /\ UNCHANGED hcAttempts
    /\ UNCHANGED <<phase, isOnline, interval, hcStarted, signals, hcStartedAt>>
    /\ UNCHANGED callVars

\* Variant: handleOnline also resets the status and polls at once.
BrowserOnline_Repoll ==
    /\ phase = "mounted"
    /\ isOnline' = TRUE
    /\ signals' = lastTwo(Append(signals, "online"))
    /\ apiStatus' = "checking"
    /\ IF hcStarted < MaxPolls
       THEN /\ hcStarted' = hcStarted + 1
            /\ hcPending' = hcPending \cup {hcStarted + 1}
       ELSE UNCHANGED <<hcStarted, hcPending>>
    /\ hcStartedAt' = IF hcStarted < MaxPolls THEN Append(hcStartedAt, 0) ELSE hcStartedAt
    /\ UNCHANGED <<phase, interval, hcOutcome, hcError, hcAttempts, unhandled>>
    /\ UNCHANGED callVars

\* window 'online' event: handleOnline.
BrowserOnline ==
    /\ phase = "mounted"
    /\ isOnline' = TRUE
    /\ signals' = lastTwo(Append(signals, "online"))
    /\ UNCHANGED <<phase, apiStatus, interval, hcStarted, hcPending, hcOutcome,
                   hcError, hcStartedAt, hcAttempts, unhandled>>
    /\ UNCHANGED callVars

\* Variant: handleOffline also marks the API status offline.
BrowserOffline_SetsStatus ==
    /\ phase = "mounted"
    /\ isOnline' = FALSE
    /\ apiStatus' = "offline"
    /\ signals' = lastTwo(Append(signals, "offline"))
    /\ UNCHANGED <<phase, interval, hcStarted, hcPending, hcOutcome,
                   hcError, hcStartedAt, hcAttempts, unhandled>>
    /\ UNCHANGED callVars

\* window 'offline' event: handleOffline.
BrowserOffline ==
    /\ phase = "mounted"
    /\ isOnline' = FALSE
    /\ signals' = lastTwo(Append(signals, "offline"))
    /\ UNCHANGED <<phase, apiStatus, interval, hcStarted, hcPending, hcOutcome,
                   hcError, hcStartedAt, hcAttempts, unhandled>>
    /\ UNCHANGED callVars

\* Variant: a cleanup that forgets clearInterval.
Unmount_NoClear ==
    /\ phase = "mounted"
    /\ phase' = "unmounted"
    /\ UNCHANGED <<isOnline, apiStatus, interval, hcStarted, hcPending, hcOutcome,
                   signals, hcError, hcStartedAt, hcAttempts, unhandled>>
    /\ UNCHANGED callVars

\* The effect's cleanup: listeners removed, clearInterval(interval).
Unmount ==
    /\ phase = "mounted"
    /\ phase' = "unmounted"
    /\ interval' = FALSE
    /\ UNCHANGED <<isOnline, apiStatus, hcStarted, hcPending, hcOutcome, signals,
                   hcError, hcStartedAt, hcAttempts, unhandled>>
    /\ UNCHANGED callVars

\* ----------------------------------------------------------- specifications

\* One logical call, every operation and every input.
Next ==
    \/ \E o \in Operations : \E a \in Inputs(o) : Invoke("c1", o, a)
    \/ \E out \in NetOutcomes : Respond("c1", out)
    \/ BackoffElapsed("c1")
    \/ Teardown("c1")

Spec == Init /\ [][Next]_vars

\* Each attempt ends (response or 30 s timeout) and each armed timer fires.
FairSpec ==
    /\ Spec
    /\ WF_vars(\E out \in NetOutcomes : Respond("c1", out))
    /\ WF_vars(BackoffElapsed("c1"))

\* The outcomes told apart by status or failure kind alone.
PlainOutcomes == {out \in NetOutcomes : out.detail = ""}

\* Two logical calls in flight concurrently.
ConcNext ==
    \/ \E c \in Calls : \E o \in Operations : Invoke(c, o, DefaultArg(o))
    \/ \E c \in Calls : \E out \in PlainOutcomes : Respond(c, out)
    \/ \E c \in Calls : BackoffElapsed(c)

ConcSpec == Init /\ [][ConcNext]_vars

\* The health monitor alone.
HealthNext ==
    \/ Mount
    \/ Tick
    \/ \E i \in 1..MaxPolls : \E out \in NetOutcomes : HealthRespond(i, out)
    \/ BrowserOnline
    \/ BrowserOffline
    \/ Unmount

HealthSpec == Init /\ [][HealthNext]_vars

\* A success, a failure that is not retried and one that is.
SystemOutcomes == {out \in PlainOutcomes : out.kind = "status" /\ out.status \in {200, 400, 503}}

\* One facade call next to the mounted health monitor.
SystemNext ==
    \/ \E o \in Operations : Invoke("c1", o, DefaultArg(o))
    \/ \E out \in SystemOutcomes : Respond("c1", out)
    \/ BackoffElapsed("c1")
    \/ Mount
    \/ Tick
    \/ \E i \in 1..MaxPolls : \E out \in SystemOutcomes : HealthRespond(i, out)
    \/ BrowserOnline
    \/ BrowserOffline
    \/ Unmount

SystemSpec == Init /\ [][SystemNext]_vars

\* The params loadReviews builds: the current page and the page size.
ListParams == {ps \in ParamsInputs : DOMAIN ps = CallerKeys /\ ps["size"] = 10}

\* The ReviewsList: each change of a filter or of the page, and each press
\* of Refresh, calls loadReviews, whether or not an earlier call is running.
ListNext ==
    \/ \E c \in Calls : \E ps \in ListParams :
          Invoke(c, "getReviews", [NoArg EXCEPT !.params = ps])
    \/ \E c \in Calls : \E out \in PlainOutcomes : Respond(c, out)
    \/ \E c \in Calls : BackoffElapsed(c)

ListSpec == Init /\ [][ListNext]_vars

\* =================================================================== claims

\* The call the single-call specifications run.
K == "c1"

\* The latest finished attempt of call c was rejected with HTTP status st.
RejectedWith(c, st) ==
    settled[c] = "rejected" /\ lastError[c].hasResponse /\ lastError[c].status = st

\* C1 as stated: a 503 answer is never retried; the call fails at once with
\* no backoff wait, whatever the attempt count.
C1_Original ==
    RejectedWith(K, 503) =>
        (pc[K] = "done" /\ result[K] = "error" /\ timer[K] = 0
            /\ attempts[K] = Len(waits[K]) + 1)

\* C1 amended: a 503 answer is retried like every other 5xx.  While fewer
\* than 3 retries have been made it is followed by a backoff wait of
\* 1000 * (retryCount + 1) ms and a new attempt; it is surfaced as the call's
\* failure only when it answers the 4th attempt.
C1_Amended ==
    (RejectedWith(K, 503) /\ pc[K] # "inflight") =>
        IF retryCount[K] < 3
        THEN pc[K] = "backoff" /\ result[K] = "pending"
                /\ timer[K] = 1000 * (retryCount[K] + 1)
        ELSE pc[K] = "done" /\ result[K] = "error" /\ attempts[K] = 4

C1_Witness ==
    /\ RejectedWith(K, 503)
    /\ pc[K] = "done"
    /\ result[K] = "error"
    /\ attempts[K] = 4
    /\ waits[K] = <<1000, 2000, 3000>>

\* The failures C2 names: a timeout, a 5xx status, or 429.
Transient(e) ==
    \/ (~e.hasResponse /\ e.code = "ECONNABORTED")
    \/ (e.hasResponse /\ e.status \in 500..599)
    \/ (e.hasResponse /\ e.status = 429)

\* C2: whenever an attempt fails with a timeout, a 5xx or a 429 and fewer
\* than 3 retries have been made, the engine does not surface the error: it
\* schedules the backoff and then issues another attempt.
C2_RetriesTransient ==
    /\ [][(/\ pc[K] = "inflight"
           /\ pc'[K] # "inflight"
           /\ settled'[K] = "rejected"
           /\ Transient(lastError'[K])
           /\ retryCount[K] < 3)
          => (pc'[K] = "backoff" /\ result'[K] = "pending")]_vars
    /\ \A n \in 1..3 :
          (pc[K] = "backoff" /\ attempts[K] = n)
              ~> (pc[K] = "inflight" /\ attempts[K] = n + 1)

C2_Witness ==
    /\ pc[K] = "inflight"
    /\ attempts[K] = 4
    /\ lastError[K].status = 429

\* C3: one logical call never makes more than 4 network attempts (3
\* retries); when the 4th attempt has failed the error is surfaced.
C3_AtMostFourAttempts ==
    /\ attempts[K] <= 4
    /\ retryCount[K] <= 3
    /\ (attempts[K] = 4 /\ pc[K] # "inflight") => pc[K] = "done"
    /\ (attempts[K] = 4 /\ pc[K] = "done" /\ settled[K] = "rejected") => result[K] = "error"

C3_Witness ==
    /\ attempts[K] = 4
    /\ pc[K] = "done"
    /\ result[K] = "error"
    /\ lastError[K].code = "ECONNABORTED"

\* C4: a 401, or any other 4xx except 429, is never retried: it ends the
\* call with an error, no backoff is scheduled and no attempt follows it; a
\* call whose first attempt gets it has made exactly one network call.
C4_ClientErrorsNotRetried ==
    (/\ settled[K] = "rejected"
     /\ lastError[K].hasResponse
     /\ lastError[K].status \in 400..499
     /\ lastError[K].status # 429)
    => (/\ pc[K] = "done"
        /\ result[K] = "error"
        /\ timer[K] = 0
        /\ attempts[K] = retryCount[K] + 1
        /\ Len(waits[K]) = retryCount[K]
        /\ (retryCount[K] = 0 => attempts[K] = 1))

C4_Witness ==
    /\ pc[K] = "done"
    /\ lastError[K].status = 401
    /\ attempts[K] = 1
    /\ result[K] = "error"

C6_SequentialRetries ==
    /\ [](net[K] <= 1 /\ (pc[K] # "inflight" => net[K] = 0))
    /\ [][attempts'[K] # attempts[K] =>
            (/\ net[K] = 0
             /\ attempts'[K] = attempts[K] + 1
             /\ \/ pc[K] = "idle"
                \/ (pc[K] = "backoff" /\ settled[K] = "rejected"
                        /\ timer[K] > 0 /\ timer'[K] = 0))]_vars

C6_Witness == pc[K] = "inflight" /\ attempts[K] = 3 /\ net[K] = 1

\* Everything the retry engine keeps for call c.
CallState(c) ==
    <<pc[c], op[c], arg[c], retryCount[c], attempts[c], net[c], lastError[c],
      settled[c], waits[c], timer[c], result[c], sent[c], message[c]>>

\* C7: the attempt counter is local to a logical call.  A step of one call
\* leaves every other call's state untouched, and each call's counter,
\* backoff delays and budget are determined by its own attempts alone.
C7_LocalRetryState ==
    /\ [][\A c \in Calls : CallState(c)' # CallState(c) =>
            \A d \in Calls \ {c} : CallState(d)' = CallState(d)]_vars
    /\ [](\A c \in Calls :
            /\ retryCount[c] <= 3
            /\ pc[c] # "idle" => retryCount[c] = attempts[c] - 1
            /\ \A i \in 1..Len(waits[c]) : waits[c][i] = 1000 * i
            /\ Len(waits[c]) = retryCount[c] + (IF pc[c] = "backoff" THEN 1 ELSE 0))

C7_Witness ==
    /\ pc["c1"] = "backoff"
    /\ retryCount["c1"] = 2
    /\ pc["c2"] = "inflight"
    /\ retryCount["c2"] = 0
    /\ attempts["c2"] = 1

\* C8: every facade invocation eventually finishes, in exactly one way: it
\* resolves with a value or fails with an error, once; and it never resolves
\* when its last attempt failed.
C8_SettlesExactlyOnce ==
    /\ (pc[K] # "idle") ~> (pc[K] = "done")
    /\ [](pc[K] = "done" <=> result[K] \in {"value", "error"})
    /\ [](result[K] = "value" => settled[K] = "fulfilled")
    /\ [](result[K] = "error" => settled[K] # "fulfilled")
    /\ [][result[K] # "pending" => result'[K] = result[K]]_vars

C8_Witness ==
    /\ pc[K] = "done"
    /\ result[K] = "error"
    /\ settled[K] = "rejected"
    /\ retryCount[K] = 2

\* C9: apiStatus starts as 'checking' and stays so until a health check of
\* the mounted monitor completes; a check that succeeds sets it to 'online',
\* one that fails sets it to 'offline'.
C9_HealthStatus ==
    /\ apiStatus = "checking"
    /\ []((\A i \in 1..MaxPolls : hcOutcome[i] = "none") => apiStatus = "checking")
    /\ [][\A i \in hcPending :
            (i \notin hcPending' /\ phase = "mounted") =>
                /\ hcOutcome'[i] = "resolved" => apiStatus' = "online"
                /\ hcOutcome'[i] = "rejected" => apiStatus' = "offline"
                /\ hcOutcome'[i] # "none"]_vars

C9_Witness ==
    /\ phase = "mounted"
    /\ hcOutcome[1] = "resolved"
    /\ hcOutcome[2] = "rejected"
    /\ hcPending = {}
    /\ hcStarted = 2
    /\ apiStatus = "offline"

\* C10 as stated: on the browser's "came back online" signal the monitor
\* re-enters 'checking' and starts a health poll at once.
C10_Original ==
    [][(~isOnline /\ isOnline' /\ hcStarted < MaxPolls) =>
          (apiStatus' = "checking" /\ hcStarted' = hcStarted + 1)]_vars

\* C10 amended: the "came back online" signal only sets isOnline; apiStatus
\* is unchanged and no poll is started.  apiStatus never re-enters
\* 'checking', and it leaves 'offline' only for 'online', when a health check
\* completes.
C10_Amended ==
    /\ [][(~isOnline /\ isOnline') =>
            (/\ apiStatus' = apiStatus
             /\ hcStarted' = hcStarted
             /\ hcPending' = hcPending)]_vars
    /\ [][apiStatus # "checking" => apiStatus' # "checking"]_vars
    /\ [][(apiStatus = "offline" /\ apiStatus' # "offline") =>
            (apiStatus' = "online" /\ hcPending' # hcPending /\ hcStarted' = hcStarted)]_vars

C10_Witness ==
    /\ phase = "mounted"
    /\ signals = <<"offline", "online">>
    /\ isOnline
    /\ apiStatus = "offline"
    /\ hcPending = {}

\* C11 as stated: on the browser's "went offline" signal the monitor's
\* status becomes 'offline' at once, with no health network call.
C11_Original ==
    [][(isOnline /\ ~isOnline') =>
          (apiStatus' = "offline" /\ hcStarted' = hcStarted)]_vars

\* C11 amended: the "went offline" signal sets isOnline to false at once,
\* with no health network call; apiStatus is left as it was, and the
\* indicator shows "No internet connection" whatever apiStatus is.
C11_Amended ==
    [][(isOnline /\ ~isOnline') =>
          (/\ apiStatus' = apiStatus
           /\ hcStarted' = hcStarted
           /\ hcPending' = hcPending
           /\ hcOutcome' = hcOutcome
           /\ ConnectionIndicator(isOnline', apiStatus') = "No internet connection")]_vars

C11_Witness ==
    /\ phase = "mounted"
    /\ signals # <<>>
    /\ signals[Len(signals)] = "offline"
    /\ ~isOnline
    /\ apiStatus = "online"
    /\ hcStarted = 1

\* C12: the monitor starts a health check when it mounts and arms the
\* interval; every later check starts exactly 30000 ms after the one before;
\* teardown disarms the interval and no check is started afterwards.
C12_PollingLifecycle ==
    /\ [](phase = "rendered" => (hcStarted = 0 /\ ~interval))
    /\ [](phase = "mounted" => (hcStarted >= 1 /\ interval))
    /\ [](phase = "unmounted" => ~interval)
    /\ [](Len(hcStartedAt) = hcStarted
            /\ \A i \in 1..Len(hcStartedAt) : hcStartedAt[i] = 30000 * (i - 1))
    /\ [][phase = "unmounted" => (hcStarted' = hcStarted /\ hcStartedAt' = hcStartedAt
                                    /\ hcPending' \subseteq hcPending)]_vars

C12_Witness ==
    /\ phase = "unmounted"
    /\ hcStartedAt = <<0, 30000>>
    /\ hcPending = {}

\* C13: however a polled healthCheck fails, nothing escapes checkApiHealth;
\* the completion of a check changes the monitor's apiStatus (and the record
\* of the check) and nothing else.
C13_MonitorNeverThrows ==
    /\ [](~unhandled)
    /\ [][hcPending' # hcPending /\ hcStarted' = hcStarted =>
            /\ isOnline' = isOnline
            /\ phase' = phase
            /\ interval' = interval
            /\ callVars' = callVars
            /\ (phase = "mounted" /\ hcError' # hcError) => apiStatus' = "offline"]_vars

C13_Witness ==
    /\ phase = "mounted"
    /\ hcError.code = "ECONNABORTED"
    /\ hcOutcome[1] = "rejected"
    /\ apiStatus = "offline"
    /\ ~unhandled

\* A query with no character other than a space or a tab (the empty one
\* included).
Blank(q) == \A i \in 1..Len(q) : q[i] \in {" ", "\t"}

\* C14: searchSimilar with an empty or whitespace-only query makes no
\* network call (no attempt, no retry, no backoff wait) and fails with the
\* validation error.
C14_BlankQueryFailsFast ==
    (op[K] = "searchSimilar" /\ Blank(arg[K].query)) =>
        (/\ pc[K] = "done"
         /\ result[K] = "error"
         /\ attempts[K] = 0
         /\ net[K] = 0
         /\ waits[K] = <<>>
         /\ sent[K] = NoRequest
         /\ message[K] = <<"Failed to search reviews", ": ", "Search query is required">>)

C14_Witness ==
    /\ op[K] = "searchSimilar"
    /\ arg[K].query = <<" ", "\t">>
    /\ result[K] = "error"
    /\ attempts[K] = 0

\* C15: ingestReviews with an empty collection, or with something that is
\* not a collection, makes no network call and fails with the validation
\* error.
C15_EmptyIngestFailsFast ==
    (op[K] = "ingestReviews" /\ (~arg[K].reviews.isArray \/ arg[K].reviews.length = 0)) =>
        (/\ pc[K] = "done"
         /\ result[K] = "error"
         /\ attempts[K] = 0
         /\ net[K] = 0
         /\ waits[K] = <<>>
         /\ sent[K] = NoRequest
         /\ message[K] = <<"Failed to ingest reviews", ": ",
                           "Reviews array is required and cannot be empty">>)

C15_Witness ==
    /\ op[K] = "ingestReviews"
    /\ arg[K].reviews = [isArray |-> TRUE, length |-> 0]
    /\ result[K] = "error"
    /\ attempts[K] = 0

\* C16: when the caller of getReviews supplies a page or a size, the request
\* carries the caller's value for that pagination parameter in place of the
\* default: the page size sent is the caller's size, the page sent is the
\* caller's page.
C16_CallerPaginationWins ==
    (op[K] = "getReviews" /\ pc[K] # "idle") =>
        (/\ "page" \in DOMAIN arg[K].params => sent[K].params["page"] = arg[K].params["page"]
         /\ "size" \in DOMAIN arg[K].params =>
                sent[K].params["page_size"] = arg[K].params["size"])

\* C17: getReviews({}) issues GET /reviews with page = 1 and page_size = 10
\* and no other query parameter.
C17_DefaultPagination ==
    (op[K] = "getReviews" /\ DOMAIN arg[K].params = {} /\ pc[K] # "idle") =>
        (/\ sent[K].method = "GET"
         /\ sent[K].url = <<"/reviews">>
         /\ DOMAIN sent[K].params = {"page", "page_size"}
         /\ sent[K].params["page"] = 1
         /\ sent[K].params["page_size"] = 10)

C17_Witness ==
    /\ op[K] = "getReviews"
    /\ DOMAIN arg[K].params = {}
    /\ pc[K] = "inflight"
    /\ attempts[K] = 2

\* The prefix of each operation's failure message.
Prefix(o) ==
    CASE o = "getReviews" -> "Failed to fetch reviews"
      [] o = "getReview" -> "Failed to fetch review"
      [] o = "ingestReviews" -> "Failed to ingest reviews"
      [] o = "suggestReply" -> "Failed to generate reply"
      [] o = "getAnalytics" -> "Failed to fetch analytics"
      [] o = "searchSimilar" -> "Failed to search reviews"
      [] o = "processReviews" -> "Failed to process reviews"
      [] OTHER -> ""

\* msg is "<prefix of o>: <some detail>".
Prefixed(o, msg) == Len(msg) = 3 /\ msg[1] = Prefix(o) /\ msg[2] = ": " /\ msg[3] # ""

\* C18 as stated: every failure of every operation is reported as
\* "<operation-specific prefix>: <detail>".
C18_Original == result[K] = "error" => Prefixed(op[K], message[K])

\* The failures an operation reports with a fixed text of its own.
StatusSpecific(c) ==
    /\ settled[c] = "rejected"
    /\ lastError[c].hasResponse
    /\ \/ (op[c] \in {"getReview", "suggestReply"} /\ lastError[c].status = 404)
       \/ (op[c] \in {"suggestReply", "getAnalytics", "searchSimilar", "processReviews"}
             /\ lastError[c].status = 503)

\* C18 amended: a failure is reported as "<prefix>: <detail>" except the
\* status-specific ones (404 of getReview and suggestReply; 503 of
\* suggestReply, getAnalytics, searchSimilar and processReviews), which are
\* reported with a fixed text that has neither the prefix nor a detail.
C18_Amended ==
    result[K] = "error" =>
        IF StatusSpecific(K)
        THEN ~Prefixed(op[K], message[K])
                /\ \A i \in 1..Len(message[K]) :
                      message[K][i] \notin {lastError[K].detail, lastError[K].message, ": "}
        ELSE Prefixed(op[K], message[K])

C18_Witness ==
    /\ result[K] = "error"
    /\ op[K] = "getAnalytics"
    /\ lastError[K].status = 503
    /\ message[K] = <<"Analytics are currently unavailable">>

\* The detail C19 names: the body's detail when the response carries one,
\* else the raw error's message, else "Unknown error".
PreferredDetail(e) ==
    IF e.hasResponse /\ e.detail # "" THEN e.detail
    ELSE IF e.message # "" THEN e.message
    ELSE "Unknown error"

\* C19: for every operation, the detail of a "<prefix>: <detail>" failure of
\* a call that reached the network is the preferred detail of its last error.
C19_DetailPreferred ==
    (result[K] = "error" /\ settled[K] = "rejected" /\ Prefixed(op[K], message[K])) =>
        message[K][3] = PreferredDetail(lastError[K])

\* The message getReview produces when the call ends with a 500 response.
GetReview500Message(a) ==
    getReviewMessage(a, AxiosErrorOf([kind |-> "status", status |-> 500, detail |-> ""]))

\* C20: getReview answered 404 fails with a message that contains
\* "not found" and differs from the message of a call that ends with 500.
C20_NotFoundDistinct ==
    (op[K] = "getReview" /\ result[K] = "error" /\ RejectedWith(K, 404)) =>
        (/\ \E i \in 1..Len(message[K]) : message[K][i] = " not found"
         /\ message[K] # GetReview500Message(arg[K])
         /\ message[K] # <<"Failed to fetch review", ": ",
                           "Request failed with status code 500">>)

C20_Witness ==
    /\ op[K] = "getReview"
    /\ result[K] = "error"
    /\ RejectedWith(K, 404)
    /\ message[K] = <<"Review with ID ", "7", " not found">>

\* C21: suggestReply that ends with a 404 answer fails with a "not found"
\* message, one that ends with a 503 answer fails with the "AI unavailable"
\* message; the two differ from each other and from the generic
\* "Failed to generate reply: ..." message, which every other failure gets.
C21_SuggestReplyErrors ==
    (op[K] = "suggestReply" /\ result[K] = "error") =>
        (/\ RejectedWith(K, 404) =>
                (message[K] = <<"Review with ID ", arg[K].id, " not found">>
                    /\ ~Prefixed(op[K], message[K]))
         /\ RejectedWith(K, 503) =>
                (message[K] = <<"AI reply generation is currently unavailable">>
                    /\ ~Prefixed(op[K], message[K]))
         /\ (~RejectedWith(K, 404) /\ ~RejectedWith(K, 503)) =>
                (Prefixed(op[K], message[K]) /\ message[K][1] = "Failed to generate reply"))

C21_Witness ==
    /\ op[K] = "suggestReply"
    /\ result[K] = "error"
    /\ RejectedWith(K, 503)
    /\ attempts[K] = 4
    /\ message[K] = <<"AI reply generation is currently unavailable">>

\* The fixed text each of the three operations reports on 503.
Unavailable(o) ==
    CASE o = "getAnalytics" -> <<"Analytics are currently unavailable">>
      [] o = "searchSimilar" -> <<"Search functionality is currently unavailable">>
      [] o = "processReviews" -> <<"Batch processing is currently unavailable">>
      [] OTHER -> <<>>

\* C22: getAnalytics, searchSimilar (non-blank query) and processReviews
\* that end with a 503 answer fail with their own "unavailable" message, and
\* with the generic "<prefix>: <detail>" message for every other failure.
C22_UnavailableErrors ==
    (/\ op[K] \in {"getAnalytics", "searchSimilar", "processReviews"}
     /\ result[K] = "error"
     /\ settled[K] = "rejected")
    => IF RejectedWith(K, 503)
       THEN message[K] = Unavailable(op[K])
              /\ \A o \in {"getAnalytics", "searchSimilar", "processReviews"} \ {op[K]} :
                    message[K] # Unavailable(o)
       ELSE Prefixed(op[K], message[K])

C22_Witness ==
    /\ op[K] = "processReviews"
    /\ result[K] = "error"
    /\ RejectedWith(K, 503)
    /\ message[K] = <<"Batch processing is currently unavailable">>

\* C23 as stated: one transport call returns successfully for any response
\* received, whatever its status, and fails only when no response was
\* received.
C23_Original ==
    settled[K] # "none" => (settled[K] = "fulfilled" <=> received[K] # 0)

\* C23 amended: one transport call returns successfully only for a response
\* with a 2xx status.  It fails for a response with any other status, with an
\* error that carries that response, and it fails when no response was
\* received, with an error that carries none.
C23_Amended ==
    settled[K] # "none" =>
        (/\ settled[K] = "fulfilled" <=> received[K] \in 200..299
         /\ settled[K] = "rejected" =>
                (/\ lastError[K].hasResponse <=> received[K] # 0
                 /\ lastError[K].status = received[K]))

C23_Witness ==
    /\ settled[K] = "rejected"
    /\ received[K] = 404
    /\ lastError[K].hasResponse
    /\ result[K] = "error"

\* C24: one healthCheck() issues exactly one request to /health and never
\* re-issues it; whatever the failure (timeout, 5xx and 429 included) the
\* check ends as failed after that one request.
C24_HealthCheckSingleRequest ==
    /\ [](\A i \in 1..MaxPolls :
            /\ hcAttempts[i] = (IF i <= hcStarted THEN 1 ELSE 0)
            /\ hcOutcome[i] # "none" => (hcAttempts[i] = 1 /\ i \notin hcPending))
    /\ [][\A i \in hcPending :
            hcAttempts'[i] = hcAttempts[i]
                /\ (hcError' # hcError =>
                       \E j \in hcPending : j \notin hcPending' /\ hcOutcome'[j] = "rejected")]_vars

C24_Witness ==
    /\ hcStarted = 3
    /\ hcPending = {}
    /\ hcOutcome = [i \in 1..MaxPolls |-> IF i <= 3 THEN "rejected" ELSE "none"]
    /\ hcError.status = 429
    /\ \A i \in 1..3 : hcAttempts[i] = 1

\* C25: a failure with no response that is not a timeout (connection
\* refused, DNS failure, network error) is never retried: it ends the call
\* with an error, no backoff is scheduled and no attempt follows it; a call
\* whose first attempt fails so has made exactly one network attempt.
C25_NoResponseNotRetried ==
    (/\ settled[K] = "rejected"
     /\ ~lastError[K].hasResponse
     /\ lastError[K].code # "ECONNABORTED")
    => (/\ pc[K] = "done"
        /\ result[K] = "error"
        /\ timer[K] = 0
        /\ net[K] = 0
        /\ attempts[K] = retryCount[K] + 1
        /\ Len(waits[K]) = retryCount[K]
        /\ (retryCount[K] = 0 => (attempts[K] = 1 /\ waits[K] = <<>>)))

C25_Witness ==
    /\ pc[K] = "done"
    /\ lastError[K].code = "ERR_NETWORK"
    /\ received[K] = 0
    /\ attempts[K] = 1
    /\ result[K] = "error"

\* C26: the retry decision depends on the failure and the retry count only,
\* not on the HTTP method: whatever the method, a rejected attempt is followed
\* by a backoff exactly when the failure is transient and fewer than 3 retries
\* have been made.  So POST /ingest answered 500 is sent again, up to 3
\* times, each time with the same body.
C26_RetryIgnoresMethod ==
    /\ (settled[K] = "rejected" /\ pc[K] # "inflight") =>
           (/\ pc[K] \in {"backoff", "done"}
            /\ pc[K] = "backoff" <=> (retryCount[K] < 3 /\ Transient(lastError[K])))
    /\ (op[K] = "ingestReviews" /\ attempts[K] >= 1) =>
           (/\ sent[K].method = "POST"
            /\ sent[K].url = <<"/ingest">>
            /\ sent[K].data = [present |-> TRUE, reviews |-> arg[K].reviews]
            /\ attempts[K] <= 4)

C26_Witness ==
    /\ op[K] = "ingestReviews"
    /\ pc[K] = "inflight"
    /\ attempts[K] = 4
    /\ RejectedWith(K, 500)
    /\ sent[K].method = "POST"
    /\ sent[K].data.reviews = arg[K].reviews

\* What the connectivity indicator is drawn from.
ConnectivityStatus == <<apiStatus, isOnline>>

\* C27: the connectivity status is changed only by the completion of a
\* health check of the monitor and by a browser online/offline event; a step
\* of a facade call (its start, a response, a retry), successful or failing,
\* leaves it unchanged.
C27_StatusOwnedByMonitor ==
    /\ [][callVars' # callVars => ConnectivityStatus' = ConnectivityStatus]_vars
    /\ [][apiStatus' # apiStatus =>
            (/\ callVars' = callVars
             /\ \E i \in hcPending : i \notin hcPending' /\ hcOutcome'[i] # "none")]_vars
    /\ [][isOnline' # isOnline => (callVars' = callVars /\ signals' # <<>>
                                     /\ isOnline' = (signals'[Len(signals')] = "online"))]_vars

C27_Witness ==
    /\ phase = "mounted"
    /\ apiStatus = "online"
    /\ hcPending = {}
    /\ op[K] = "getAnalytics"
    /\ result[K] = "error"
    /\ RejectedWith(K, 503)
    /\ attempts[K] = 4

\* C28: there is no cancellation.  Tearing down the component that issued
\* a running call changes nothing of the call; after it the retry decisions
\* are the same, a pending backoff wait still ends in the next attempt, and
\* the call runs until it has settled.
C28_NoCancellation ==
    /\ [][(mounted[K] /\ ~mounted'[K]) =>
            (/\ pc'[K] = pc[K]
             /\ timer'[K] = timer[K]
             /\ net'[K] = net[K]
             /\ retryCount'[K] = retryCount[K]
             /\ attempts'[K] = attempts[K]
             /\ result'[K] = result[K])]_vars
    /\ []((/\ ~mounted[K]
           /\ settled[K] = "rejected"
           /\ pc[K] # "inflight"
           /\ retryCount[K] < 3
           /\ Transient(lastError[K]))
          => (pc[K] = "backoff" /\ timer[K] = 1000 * (retryCount[K] + 1)))
    /\ \A n \in 1..3 :
          (~mounted[K] /\ pc[K] = "backoff" /\ attempts[K] = n)
              ~> (~mounted[K] /\ pc[K] = "inflight" /\ attempts[K] = n + 1)
    /\ (~mounted[K] /\ pc[K] # "done") ~> (~mounted[K] /\ pc[K] = "done")

C28_Witness ==
    /\ ~mounted[K]
    /\ op[K] = "getReview"
    /\ pc[K] = "backoff"
    /\ attempts[K] = 1
    /\ timer[K] = 1000

\* The most recently issued call.
Latest == issued[Len(issued)]

\* C29: when several loadReviews requests have been issued and all of them
\* have completed, the list displays the data returned for the most recently
\* issued one.
C29_LatestRequestShown ==
    (/\ Len(issued) = Cardinality(Calls)
     /\ \A c \in Calls : op[c] = "getReviews" /\ pc[c] = "done"
     /\ result[Latest] = "value")
    => shown = Latest

\* C30: when the mounted monitor has started several health checks and all
\* of them have completed, apiStatus is the outcome of the most recently
\* started one: 'online' if it succeeded, 'offline' if it failed.
C30_LatestCheckWins ==
    (phase = "mounted" /\ hcStarted >= 2 /\ hcPending = {}) =>
        apiStatus = (IF hcOutcome[hcStarted] = "resolved" THEN "online" ELSE "offline")

====
